---- MODULE Spec2Model ----
(***************************************************************************)
(* Model of notebook/flaml_forecast.ipynb: the monthly CO2 forecasting     *)
(* walk-through.  The notebook is a linear sequence of code cells run in a *)
(* Python kernel: load/preprocess, split, create AutoML, settings, fit,    *)
(* report (best model, estimator, pickle, predict, metric, log history,    *)
(* two charts).  The AutoML object, the metric routine, the log reader and *)
(* the plotting library are external; their results are nondeterministic   *)
(* choices, their calls are recorded.                                      *)
(*                                                                         *)
(* Numbers of the co2 column are exact rationals <<num, den>>; the missing *)
(* value (NaN) is <<0, 0>>.  Timestamps are month numbers.                 *)
(***************************************************************************)
EXTENDS Integers, Sequences, FiniteSets

\* ---------------------------------------------------------------- bounds
MaxRows == 3
MaxMonth == 3
MaxHorizon == 3
MaxRuns == 2

\* ------------------------------------------------------------ value model
Values == {1, 2}
NaN == <<0, 0>>
IsNaN(x) == x[2] = 0
Obs == {<<v, 1>> : v \in Values} \cup {NaN}

RECURSIVE GCD(_, _)
GCD(a, b) == IF b = 0 THEN a ELSE GCD(b, a % b)

Rat(n, d) == <<n \div GCD(n, d), d \div GCD(n, d)>>

Months == 1..MaxMonth
StartMonth == 1
Horizons == 1..MaxHorizon

\* The weekly observations of the dataset: rows in time order, each falling
\* in a month t, each with a reading or a missing reading; at least one row
\* has a reading.
RawRows == [t : Months, co2 : Obs]
RawSeries ==
    {s \in UNION {[1..L -> RawRows] : L \in 1..MaxRows} :
        /\ s[1].t = StartMonth
        /\ \E i \in 1..Len(s) : ~IsNaN(s[i].co2)
        /\ \A i \in 1..(Len(s) - 1) : s[i].t <= s[i + 1].t}

\* ------------------------------------------------- pandas / Python helpers
RECURSIVE SumNum(_, _)
SumNum(s, S) ==
    IF S = {} THEN 0
    ELSE LET i == CHOOSE j \in S : TRUE IN s[i].co2[1] + SumNum(s, S \ {i})

\* Series.resample('MS').mean(): one bin per calendar month from the month
\* of the first row to the month of the last row; the mean skips missing
\* readings, and a bin with no reading at all is missing.
MonthMean(s, m) ==
    LET S == {i \in 1..Len(s) : s[i].t = m /\ ~IsNaN(s[i].co2)}
    IN IF S = {} THEN NaN ELSE Rat(SumNum(s, S), Cardinality(S))

Resample(s) ==
    LET first == s[1].t
        last == s[Len(s)].t
    IN [i \in 1..(last - first + 1) |->
            [index |-> first + i - 1, co2 |-> MonthMean(s, first + i - 1)]]

\* Variant: forward fill (the last valid entry before).
NextValidForward(s, i) ==
    LET J == {j \in 1..i : ~IsNaN(s[j].co2)}
    IN IF J = {} THEN NaN
       ELSE s[CHOOSE j \in J : \A k \in J : j >= k].co2

\* Series.bfill(): a missing entry takes the next valid entry after it; a
\* missing entry with no valid entry after it stays missing.
NextValid(s, i) ==
    LET J == {j \in i..Len(s) : ~IsNaN(s[j].co2)}
    IN IF J = {} THEN NaN
       ELSE s[CHOOSE j \in J : \A k \in J : j <= k].co2

Bfill(s) == [i \in 1..Len(s) |-> [s[i] EXCEPT !.co2 = NextValid(s, i)]]

\* Series.fillna(other): entries that are missing are taken from other (same
\* index); all other entries are kept.
Fillna(s, other) ==
    [i \in 1..Len(s) |-> IF IsNaN(s[i].co2) THEN other[i] ELSE s[i]]

\* Series.to_frame().reset_index(): the month index becomes column 'index',
\* rows are labelled 0, 1, 2, ...
ResetIndex(s) ==
    [i \in 1..Len(s) |-> [row |-> i - 1, index |-> s[i].index, co2 |-> s[i].co2]]

\* Python slice bound: negative bounds count from the end, all bounds are
\* clamped to [0, n].
SliceBound(k, n) ==
    IF k < 0 THEN (IF k + n < 0 THEN 0 ELSE k + n)
    ELSE IF k > n THEN n ELSE k

\* Variant: the prefix stops one row early.
SliceToShort(s, k) ==
    IF SliceBound(k, Len(s)) = 0 THEN <<>>
    ELSE SubSeq(s, 1, SliceBound(k, Len(s)) - 1)

\* Variant: the suffix starts one row early.
SliceFromEarly(s, k) ==
    IF SliceBound(k, Len(s)) = 0 THEN s
    ELSE SubSeq(s, SliceBound(k, Len(s)), Len(s))

\* df[:k]
SliceTo(s, k) == SubSeq(s, 1, SliceBound(k, Len(s)))
\* df[k:]
SliceFrom(s, k) == SubSeq(s, SliceBound(k, Len(s)) + 1, Len(s))

\* The whole load/preprocess cell as a function of the dataset.
Preprocess(r) == ResetIndex(Fillna(Resample(r), Bfill(Resample(r))))

\* ------------------------------------------------------------------ cells
Cells == <<"load", "split", "create", "settings", "fit", "best", "estimator",
           "pickle", "predict", "metric", "log", "curve", "plot">>

CellIndex(c) == CHOOSE i \in 1..Len(Cells) : Cells[i] = c

\* Variant: the driver cell is skipped.
NextCellSkipFit(c) ==
    IF c = "settings" THEN "best"
    ELSE IF CellIndex(c) = Len(Cells) THEN "done" ELSE Cells[CellIndex(c) + 1]

NextCell(c) ==
    IF CellIndex(c) = Len(Cells) THEN "done" ELSE Cells[CellIndex(c) + 1]

\* What a cell that ran to completion leaves behind (file, printout, value
\* shown, chart).
Artifact(c) ==
    CASE c = "fit" -> {"log"}
      [] c = "best" -> {"best_printout"}
      [] c = "estimator" -> {"estimator_printout"}
      [] c = "pickle" -> {"snapshot"}
      [] c = "predict" -> {"prediction"}
      [] c = "metric" -> {"test_error"}
      [] c = "log" -> {"history"}
      [] c = "curve" -> {"learning_curve"}
      [] c = "plot" -> {"forecast_chart"}
      [] OTHER -> {}

Estimators == {"fbprophet", "arima"}
PredValues == {1, 2}

VARIABLES
    raw,           \* the dataset returned by the loader (input)
    horizon,       \* the literal assigned to time_horizon in the split cell
    run,           \* number of the current run
    pc,            \* cell about to execute, or "done" / "failed"
    failed_at,     \* cell whose execution raised, "" if none
    trace,         \* cells executed to completion in this run, in order
    monthly,       \* data after resample('MS').mean(), before the fill
    data,
    num_samples,
    time_horizon,
    split_idx,
    X_train,
    X_test,
    y_test,
    settings,
    automl,        \* state of the AutoML object
    flaml_y_pred,
    compared,      \* pairs handed to sklearn_metric_loss_score, by position
    produced,      \* output artifacts produced in this run
    calls,         \* every fit request issued, over all runs
    disk           \* files present in the working directory

frame == <<monthly, data, num_samples, time_horizon, split_idx, X_train, X_test, y_test>>
driver == <<settings, automl, flaml_y_pred, compared>>
world == <<produced, calls, disk>>
input == <<raw, horizon, run>>
vars == <<raw, horizon, run, pc, failed_at, trace, monthly, data, num_samples,
          time_horizon, split_idx, X_train, X_test, y_test, settings, automl,
          flaml_y_pred, compared, produced, calls, disk>>

NoAutoML == [created |-> FALSE, fitted |-> FALSE, best_estimator |-> ""]
NoSettings == [time_budget |-> 0, metric |-> "", task |-> "", log_file_name |-> "",
               eval_method |-> "", seed |-> 0]

\* A fresh kernel: nothing is bound yet.
FreshKernel ==
    /\ pc = "load"
    /\ failed_at = ""
    /\ trace = <<>>
    /\ monthly = <<>>
    /\ data = <<>>
    /\ num_samples = 0
    /\ time_horizon = 0
    /\ split_idx = 0
    /\ X_train = <<>>
    /\ X_test = <<>>
    /\ y_test = <<>>
    /\ settings = NoSettings
    /\ automl = NoAutoML
    /\ flaml_y_pred = <<>>
    /\ compared = <<>>
    /\ produced = {}

Init ==
    /\ raw \in RawSeries
    /\ horizon \in Horizons
    /\ run = 1
    /\ calls = <<>>
    /\ disk = {}
    /\ FreshKernel

Advance(c) ==
    /\ pc = c
    /\ pc' = NextCell(c)
    /\ trace' = Append(trace, c)
    /\ failed_at' = failed_at

\* data = sm.datasets.co2.load_pandas().data['co2'].resample('MS').mean()
\* data = data.fillna(data.bfill()); data = data.to_frame().reset_index()
Load ==
    /\ Advance("load")
    /\ monthly' = Resample(raw)
    /\ data' = Preprocess(raw)
    /\ UNCHANGED <<num_samples, time_horizon, split_idx, X_train, X_test, y_test>>
    /\ UNCHANGED <<driver, world, input>>

\* data[split_idx:]['index'].to_frame('ds'): the dates, row labels kept
TestDates(d, k) ==
    [i \in 1..Len(SliceFrom(d, k)) |->
        [row |-> SliceFrom(d, k)[i].row, ds |-> SliceFrom(d, k)[i].index]]

\* data[split_idx:]['co2']: the values, row labels kept
TestValues(d, k) ==
    [i \in 1..Len(SliceFrom(d, k)) |->
        [row |-> SliceFrom(d, k)[i].row, co2 |-> SliceFrom(d, k)[i].co2]]

\* num_samples, time_horizon, split_idx, X_train, X_test, y_test
Split ==
    /\ Advance("split")
    /\ num_samples' = Len(data)
    /\ time_horizon' = horizon
    /\ split_idx' = Len(data) - horizon
    /\ X_train' = SliceTo(data, Len(data) - horizon)
    /\ X_test' = TestDates(data, Len(data) - horizon)
    /\ y_test' = TestValues(data, Len(data) - horizon)
    /\ UNCHANGED <<monthly, data>>
    /\ UNCHANGED <<driver, world, input>>

\* from flaml import AutoML; automl = AutoML()
Create ==
    /\ Advance("create")
    /\ automl' = [created |-> TRUE, fitted |-> FALSE, best_estimator |-> ""]
    /\ UNCHANGED <<settings, flaml_y_pred, compared>>
    /\ UNCHANGED <<frame, world, input>>

\* settings = {...}
Settings ==
    /\ Advance("settings")
    /\ settings' = [time_budget |-> 180, metric |-> "mape", task |-> "forecast",
                    log_file_name |-> "CO2_forecast.log", eval_method |-> "holdout",
                    seed |-> 7654321]
    /\ UNCHANGED <<automl, flaml_y_pred, compared>>
    /\ UNCHANGED <<frame, world, input>>

\* Variant: the seed depends on what earlier runs left in the directory.
FitRequestLeftover(df, st, period) ==
    [dataframe |-> df, label |-> <<"index", "co2">>,
     time_budget |-> st.time_budget, metric |-> st.metric, task |-> st.task,
     log_file_name |-> st.log_file_name, eval_method |-> st.eval_method,
     seed |-> st.seed + Cardinality(disk), period |-> period]

\* The keyword arguments of automl.fit(dataframe=X_train, label=('index',
\* 'co2'), **settings, period=time_horizon).
FitRequest(df, st, period) ==
    [dataframe |-> df, label |-> <<"index", "co2">>,
     time_budget |-> st.time_budget, metric |-> st.metric, task |-> st.task,
     log_file_name |-> st.log_file_name, eval_method |-> st.eval_method,
     seed |-> st.seed, period |-> period]

\* automl.fit(...) returns: the search picked some learner and wrote its
\* trial log.
Fit ==
    /\ Advance("fit")
    /\ automl.created
    /\ calls' = Append(calls, FitRequest(X_train, settings, time_horizon))
    /\ \E e \in Estimators :
          automl' = [created |-> TRUE, fitted |-> TRUE, best_estimator |-> e]
    /\ disk' = disk \cup {settings.log_file_name}
    /\ produced' = produced \cup Artifact("fit")
    /\ UNCHANGED <<settings, flaml_y_pred, compared>>
    /\ UNCHANGED <<frame, input>>

\* print best_estimator, best_config, best_loss, best_config_train_time
Best ==
    /\ Advance("best")
    /\ automl.fitted
    /\ produced' = produced \cup Artifact("best")
    /\ UNCHANGED <<calls, disk>>
    /\ UNCHANGED <<frame, driver, input>>

\* print(automl.model.estimator)
Estimator ==
    /\ Advance("estimator")
    /\ automl.fitted
    /\ produced' = produced \cup Artifact("estimator")
    /\ UNCHANGED <<calls, disk>>
    /\ UNCHANGED <<frame, driver, input>>

\* pickle.dump(automl, open('automl.pkl', 'wb'))
Pickle ==
    /\ Advance("pickle")
    /\ disk' = disk \cup {"automl.pkl"}
    /\ produced' = produced \cup Artifact("pickle")
    /\ UNCHANGED calls
    /\ UNCHANGED <<frame, driver, input>>

\* flaml_y_pred = automl.predict(X_test): one forecast per requested date,
\* in the order of the dates.  The forecast values are the fitted model's
\* and opaque to the notebook: a call returns one of the levels PredValues.
Predict ==
    /\ Advance("predict")
    /\ automl.fitted
    /\ \E v \in PredValues :
          flaml_y_pred' = [i \in 1..Len(X_test) |-> [ds |-> X_test[i].ds, yhat |-> v]]
    /\ produced' = produced \cup Artifact("predict")
    /\ UNCHANGED <<calls, disk>>
    /\ UNCHANGED <<settings, automl, compared>>
    /\ UNCHANGED <<frame, input>>

\* Variant: the ground truth is read in reverse order.
PairUpReversed(pred, truth) ==
    [i \in 1..Len(pred) |-> [pred |-> pred[i], truth |-> truth[Len(truth) + 1 - i]]]

\* sklearn_metric_loss_score('mape', flaml_y_pred, y_test) compares its two
\* arguments position by position.
PairUp(pred, truth) ==
    [i \in 1..Len(pred) |-> [pred |-> pred[i], truth |-> truth[i]]]

Metric ==
    /\ Advance("metric")
    /\ Len(flaml_y_pred) = Len(y_test)
    /\ compared' = PairUp(flaml_y_pred, y_test)
    /\ produced' = produced \cup Artifact("metric")
    /\ UNCHANGED <<calls, disk>>
    /\ UNCHANGED <<settings, automl, flaml_y_pred>>
    /\ UNCHANGED <<frame, input>>

\* get_output_from_log(filename=settings['log_file_name'], time_budget=180)
LogHistory ==
    /\ Advance("log")
    /\ settings.log_file_name \in disk
    /\ produced' = produced \cup Artifact("log")
    /\ UNCHANGED <<calls, disk>>
    /\ UNCHANGED <<frame, driver, input>>

\* learning-curve chart
Curve ==
    /\ Advance("curve")
    /\ "history" \in produced
    /\ produced' = produced \cup Artifact("curve")
    /\ UNCHANGED <<calls, disk>>
    /\ UNCHANGED <<frame, driver, input>>

\* actual-versus-forecast chart
Plot ==
    /\ Advance("plot")
    /\ produced' = produced \cup Artifact("plot")
    /\ UNCHANGED <<calls, disk>>
    /\ UNCHANGED <<frame, driver, input>>

\* Variant: the exception is swallowed and the next cell runs.
StopSwallowed(c) ==
    /\ pc = c
    /\ pc' = NextCell(c)
    /\ failed_at' = c
    /\ trace' = trace

\* No cell catches anything: an exception raised while a cell executes ends
\* the run at that cell.  What the cell had bound or written so far is not
\* rolled back; nothing it had not done yet happens.
Stop(c) ==
    /\ pc = c
    /\ pc' = "failed"
    /\ failed_at' = c
    /\ trace' = trace

Fail ==
    /\ \E c \in {Cells[i] : i \in 1..Len(Cells)} \ {"fit", "pickle"} : Stop(c)
    /\ UNCHANGED <<frame, driver, world, input>>

\* fit raises after the call was issued; the trial log may or may not have
\* been started.
FailFit ==
    /\ Stop("fit")
    /\ automl.created
    /\ calls' = Append(calls, FitRequest(X_train, settings, time_horizon))
    /\ \E written \in BOOLEAN :
          disk' = IF written THEN disk \cup {settings.log_file_name} ELSE disk
    /\ produced' = produced
    /\ UNCHANGED <<frame, driver, input>>

\* the snapshot cell raises before or after open() created the file
FailPickle ==
    /\ Stop("pickle")
    /\ \E created \in BOOLEAN :
          disk' = IF created THEN disk \cup {"automl.pkl"} ELSE disk
    /\ UNCHANGED <<produced, calls>>
    /\ UNCHANGED <<frame, driver, input>>

\* The notebook is run again in a fresh kernel; files stay where they are.
Restart ==
    /\ pc \in {"done", "failed"}
    /\ run < MaxRuns
    /\ run' = run + 1
    /\ pc' = "load"
    /\ failed_at' = ""
    /\ trace' = <<>>
    /\ monthly' = <<>>
    /\ data' = <<>>
    /\ num_samples' = 0
    /\ time_horizon' = 0
    /\ split_idx' = 0
    /\ X_train' = <<>>
    /\ X_test' = <<>>
    /\ y_test' = <<>>
    /\ settings' = NoSettings
    /\ automl' = NoAutoML
    /\ flaml_y_pred' = <<>>
    /\ compared' = <<>>
    /\ produced' = {}
    /\ UNCHANGED <<raw, horizon, calls, disk>>

Next ==
    \/ Load \/ Split \/ Create \/ Settings \/ Fit \/ Best \/ Estimator
    \/ Pickle \/ Predict \/ Metric \/ LogHistory \/ Curve \/ Plot
    \/ Fail \/ FailFit \/ FailPickle \/ Restart

Spec == Init /\ [][Next]_vars

\* ================================================================= claims
CellNames == {Cells[i] : i \in 1..Len(Cells)}
Ran(c) == \E i \in 1..Len(trace) : trace[i] = c

\* The test rows put back together: the dates of X_test with the values of
\* y_test.
TestRows ==
    [i \in 1..Len(X_test) |->
        [row |-> X_test[i].row, index |-> X_test[i].ds, co2 |-> y_test[i].co2]]

\* C1: whatever the series length and the horizon, X_test and y_test have
\* exactly time_horizon rows once the split cell has run.
C1_TestRowsEqualHorizon ==
    Ran("split") => Len(X_test) = time_horizon /\ Len(y_test) = time_horizon

\* C2: after resample and fill, no value of X_train and no value of y_test
\* is missing, whatever months had no reading.
C2_NoMissingAfterFill ==
    Ran("split") =>
        /\ \A i \in 1..Len(X_train) : ~IsNaN(X_train[i].co2)
        /\ \A i \in 1..Len(y_test) : ~IsNaN(y_test[i].co2)

\* C3: the training rows followed by the test rows (X_test dates with y_test
\* values) are exactly the rows of the full resampled series, each once, in
\* the original order.
C3_ConcatIsSeries ==
    Ran("split") =>
        /\ Len(X_test) = Len(y_test)
        /\ X_train \o TestRows = data

C3_Witness ==
    Ran("split") /\ Len(X_train) >= 1 /\ Len(X_test) >= 2

\* C4: every training timestamp is strictly earlier than every test
\* timestamp, the test timestamps increase, and the first test timestamp is
\* the month right after the last training timestamp.
C4_TemporalOrderNoOverlap ==
    Ran("split") =>
        /\ \A i \in 1..Len(X_train) : \A j \in 1..Len(X_test) :
              X_train[i].index < X_test[j].ds
        /\ \A i \in 1..(Len(X_test) - 1) : X_test[i].ds < X_test[i + 1].ds
        /\ (Len(X_train) > 0 /\ Len(X_test) > 0) =>
              X_test[1].ds = X_train[Len(X_train)].index + 1

C4_Witness ==
    Ran("split") /\ Len(X_train) >= 2 /\ Len(X_test) >= 1

\* C5: y_test is parallel to X_test (same length; position i of both is the
\* same row of the series: the timestamp of X_test[i] and the value of
\* y_test[i]), and the metric compares the prediction for X_test[i] with
\* exactly that value.
C5_TruthParallelToTest ==
    /\ Ran("split") =>
          /\ Len(y_test) = Len(X_test)
          /\ \A i \in 1..Len(X_test) :
                /\ y_test[i].row = X_test[i].row
                /\ data[X_test[i].row + 1].index = X_test[i].ds
                /\ data[X_test[i].row + 1].co2 = y_test[i].co2
    /\ Ran("metric") =>
          /\ Len(compared) = Len(X_test)
          /\ \A i \in 1..Len(compared) :
                /\ compared[i].pred.ds = X_test[i].ds
                /\ compared[i].truth.row = X_test[i].row
                /\ compared[i].truth.co2 = data[X_test[i].row + 1].co2

C5_Witness ==
    Ran("metric") /\ Len(compared) >= 2

\* C6: all fit requests issued for the same input series are identical
\* (time budget, metric, task, log file name, validation strategy, seed,
\* period, training table), whatever earlier runs returned or left behind.
C6_SameRequestEveryRun ==
    \A i \in 1..Len(calls) : \A j \in 1..Len(calls) : calls[i] = calls[j]

C6_Witness ==
    Len(calls) >= 2 /\ run >= 2 /\ "automl.pkl" \in disk /\ "CO2_forecast.log" \in disk

\* C7: a run in which a cell failed has stopped at that cell: exactly the
\* cells before it ran, it was not retried, no later cell ran and none of
\* the later cells' artifacts exists (after a failed fit: no snapshot, no
\* prediction, no log history).
C7_FailureTerminatesRun ==
    failed_at # "" =>
        /\ pc = "failed"
        /\ trace = SubSeq(Cells, 1, CellIndex(failed_at) - 1)
        /\ \A c \in CellNames :
              CellIndex(c) >= CellIndex(failed_at) => Artifact(c) \cap produced = {}
        /\ failed_at = "fit" =>
              /\ produced \cap {"snapshot", "prediction", "test_error", "history"} = {}
              /\ flaml_y_pred = <<>>
              /\ ~automl.fitted

C7_Witness ==
    failed_at = "fit" /\ pc = "failed" /\ Len(calls) = 1 /\ "automl.pkl" \notin disk

LastTrainMonth(r, h) == r[Len(r)].t - h
TrainRows(r, h) == SelectSeq(r, LAMBDA x : x.t <= LastTrainMonth(r, h))
SameTrainingPrefix(r1, r2, h) ==
    /\ r1[1].t = r2[1].t
    /\ r1[Len(r1)].t = r2[Len(r2)].t
    /\ r1[Len(r1)].t - r1[1].t + 1 >= h
    /\ TrainRows(r1, h) = TrainRows(r2, h)

\* C9: the training table depends only on the readings of the months of the
\* training prefix: any dataset that agrees with the input on those months
\* yields the same X_train, and the same table is what fit receives.
C9_HeldOutNeverReachesTraining ==
    Ran("split") =>
        \A r2 \in RawSeries :
            SameTrainingPrefix(raw, r2, horizon) =>
                /\ SliceTo(Preprocess(r2), Len(Preprocess(r2)) - horizon) = X_train
                /\ Ran("fit") => calls[Len(calls)].dataframe =
                      SliceTo(Preprocess(r2), Len(Preprocess(r2)) - horizon)

\* C10: the fill keeps the number and order of rows, keeps every observed
\* monthly mean, and gives every missing month that has a later observed
\* month the value of the nearest later observed month.
C10_FillOnlyMissing ==
    Ran("load") =>
        /\ Len(data) = Len(monthly)
        /\ \A i \in 1..Len(monthly) :
              /\ data[i].index = monthly[i].index
              /\ ~IsNaN(monthly[i].co2) => data[i].co2 = monthly[i].co2
              /\ \A j \in (i + 1)..Len(monthly) :
                    (/\ IsNaN(monthly[i].co2)
                     /\ ~IsNaN(monthly[j].co2)
                     /\ \A k \in (i + 1)..(j - 1) : IsNaN(monthly[k].co2))
                    => data[i].co2 = monthly[j].co2

C10_Witness ==
    /\ Ran("load")
    /\ \E i \in 1..Len(monthly) : \E j \in (i + 1)..Len(monthly) :
          \E k \in (j + 1)..Len(monthly) :
             /\ IsNaN(monthly[i].co2)
             /\ ~IsNaN(monthly[j].co2)
             /\ ~IsNaN(monthly[k].co2)
             /\ monthly[j].co2 # monthly[k].co2
             /\ data[i].co2 = monthly[j].co2
====
